---- MODULE Spec2Model ----
(***************************************************************************)
(* A model of src/src/glyph.js: the Glyph object (constructor, addUnicode, *)
(* getPath, getContours, getMetrics, drawMetrics) and the Path object      *)
(* (command builders, draw, toPathData, toSVG, drawSVG).                   *)
(*                                                                         *)
(* JavaScript numbers are modelled as exact rationals <<n, d>> in lowest   *)
(* terms with d > 0.  The inputs the specifications enumerate are whole    *)
(* numbers and dyadic fractions, which an IEEE double holds exactly.       *)
(* JavaScript strings are modelled as sequences of one-character strings.  *)
(***************************************************************************)
EXTENDS Integers, Sequences, FiniteSets, TLC

VARIABLES
    options,        \* the argument the Glyph constructor was called with
    unitsPerEm,     \* glyph.font.unitsPerEm
    unicode,        \* glyph.unicode
    unicodes,       \* glyph.unicodes
    xMin, yMin, xMax, yMax, advanceWidth,   \* glyph.xMin ... glyph.advanceWidth
    points,         \* glyph.points (set by the loader, not by the constructor)
    commands,       \* glyph.path.commands
    fill, stroke, strokeWidth,              \* glyph.path.fill / stroke / strokeWidth
    call,           \* the last method called, with its arguments
    ret,            \* what that call returned (or that it threw)
    ctx             \* the calls that call made on its drawing sink

vars == <<options, unitsPerEm, unicode, unicodes, xMin, yMin, xMax, yMax,
          advanceWidth, points, commands, fill, stroke, strokeWidth, call, ret, ctx>>

----------------------------------------------------------------------------
(* Numbers *)

Abs(i) == IF i < 0 THEN -i ELSE i

RECURSIVE GCD(_, _)
GCD(a, b) == IF b = 0 THEN a ELSE GCD(b, a % b)

\* The rational n/d in lowest terms, d > 0.
Rat(n, d) ==
    LET g == GCD(Abs(n), Abs(d))
        s == IF d < 0 THEN -1 ELSE 1
    IN  <<(s * n) \div g, (s * d) \div g>>

N(k) == <<k, 1>>

RAdd(a, b) == Rat(a[1] * b[2] + b[1] * a[2], a[2] * b[2])
RNeg(a) == <<-a[1], a[2]>>
RSub(a, b) == RAdd(a, RNeg(b))
RMul(a, b) == Rat(a[1] * b[1], a[2] * b[2])
RDiv(a, b) == Rat(a[1] * b[2], a[2] * b[1])
RLeq(a, b) == a[1] * b[2] <= b[1] * a[2]
RLess(a, b) == a[1] * b[2] < b[1] * a[2]

\* Math.floor
Floor(a) == a[1] \div a[2]

\* Math.round: the nearest integer, a tie going up.
MathRound(a) == N((2 * a[1] + a[2]) \div (2 * a[2]))

RECURSIVE Pow10(_)
Pow10(k) == IF k = 0 THEN 1 ELSE 10 * Pow10(k - 1)

RECURSIVE MinOf(_)
\* Math.min.apply(null, xs) of a non-empty list.
MinOf(xs) ==
    IF Len(xs) = 1 THEN xs[1]
    ELSE LET m == MinOf(Tail(xs)) IN IF RLess(xs[1], m) THEN xs[1] ELSE m

RECURSIVE MaxOf(_)
\* Math.max.apply(null, xs) of a non-empty list.
MaxOf(xs) ==
    IF Len(xs) = 1 THEN xs[1]
    ELSE LET m == MaxOf(Tail(xs)) IN IF RLess(m, xs[1]) THEN xs[1] ELSE m

----------------------------------------------------------------------------
(* Strings *)

Digits == <<"0", "1", "2", "3", "4", "5", "6", "7", "8", "9">>

RECURSIVE NatToString(_)
\* The decimal digits of a natural number.
NatToString(k) ==
    IF k < 10 THEN <<Digits[k + 1]>>
    ELSE NatToString(k \div 10) \o <<Digits[(k % 10) + 1]>>

\* '' + k for an integer k.
IntToString(k) == IF k < 0 THEN <<"-">> \o NatToString(-k) ELSE NatToString(k)

RECURSIVE PadLeft(_, _)
PadLeft(s, len) == IF Len(s) >= len THEN s ELSE PadLeft(<<"0">> \o s, len)

\* Number.prototype.toFixed(f): the sign, then the integer n nearest to
\* |v| * 10^f (of two, the larger), written with f digits after the point.
toFixed(v, f) ==
    LET neg == v[1] < 0
        a == <<Abs(v[1]), v[2]>>
        n == (2 * a[1] * Pow10(f) + a[2]) \div (2 * a[2])
        m == PadLeft(NatToString(n), f + 1)
        k == Len(m) - f
    IN  (IF neg THEN <<"-">> ELSE <<>>)
        \o (IF f = 0 THEN m ELSE SubSeq(m, 1, k) \o <<".">> \o SubSeq(m, k + 1, Len(m)))

RECURSIVE FracDigits(_, _)
\* The digits of a terminating decimal fraction num/den, 0 <= num < den.
FracDigits(num, den) ==
    IF num = 0 THEN <<>>
    ELSE <<Digits[((10 * num) \div den) + 1]>> \o FracDigits((10 * num) % den, den)

\* '' + v for a number with a short terminating decimal expansion.
NumberToString(v) ==
    IF v[2] = 1 THEN IntToString(v[1])
    ELSE LET a == Abs(v[1])
         IN  (IF v[1] < 0 THEN <<"-">> ELSE <<>>)
             \o NatToString(a \div v[2]) \o <<".">> \o FracDigits(a % v[2], v[2])

IsDigit(ch) == \E i \in 1..10 : Digits[i] = ch

DigitValue(ch) == (CHOOSE i \in 1..10 : Digits[i] = ch) - 1

RECURSIVE DigitsToNat(_)
DigitsToNat(s) ==
    IF s = <<>> THEN 0
    ELSE 10 * DigitsToNat(SubSeq(s, 1, Len(s) - 1)) + DigitValue(s[Len(s)])

RECURSIVE Concat(_)
\* The concatenation of a list of strings.
Concat(ss) == IF ss = <<>> THEN <<>> ELSE Head(ss) \o Concat(Tail(ss))

----------------------------------------------------------------------------
(* JavaScript values that may be absent *)

Undefined == [t |-> "undefined", v |-> N(0)]
Num(r) == [t |-> "number", v |-> r]

Null == [t |-> "null", v |-> <<>>]
Str(s) == [t |-> "string", v |-> s]

\* ToBoolean: undefined, null, 0 and '' are falsy.
Truthy(j) ==
    CASE j.t = "undefined" -> FALSE
      [] j.t = "null" -> FALSE
      [] j.t = "number" -> j.v[1] # 0
      [] j.t = "string" -> j.v # <<>>
      [] j.t = "array" -> TRUE

\* a || b
Or(a, b) == IF Truthy(a) THEN a ELSE b

\* v !== undefined ? v : d
OrDefault(j, d) == IF j.t # "undefined" THEN j ELSE d

----------------------------------------------------------------------------
(* Path *)

Black == <<"b", "l", "a", "c", "k">>

\* function Path(): no commands, fill 'black', no stroke, strokeWidth 1.
Path == [commands |-> <<>>, fill |-> Str(Black), stroke |-> Null, strokeWidth |-> N(1)]

\* Path.prototype.moveTo and the other builders push one command.
moveTo(cmds, x, y) == Append(cmds, [type |-> "M", x |-> x, y |-> y])

lineTo(cmds, x, y) == Append(cmds, [type |-> "L", x |-> x, y |-> y])

curveTo(cmds, x1, y1, x2, y2, x, y) ==
    Append(cmds, [type |-> "C", x1 |-> x1, y1 |-> y1, x2 |-> x2, y2 |-> y2,
                  x |-> x, y |-> y])

quadraticCurveTo(cmds, x1, y1, x, y) ==
    Append(cmds, [type |-> "Q", x1 |-> x1, y1 |-> y1, x |-> x, y |-> y])

closePath(cmds) == Append(cmds, [type |-> "Z"])

----------------------------------------------------------------------------
(* Glyph *)

NoArray == [t |-> "undefined", v |-> <<>>]
Arr(s) == [t |-> "array", v |-> s]

\* this.unicode = options.unicode || undefined
GlyphUnicode(opt) == Or(opt.unicode, Undefined)

\* this.unicodes = options.unicodes || options.unicode !== undefined ? [options.unicode] : []
\* which JavaScript reads as (a || b) ? [u] : [].
GlyphUnicodes(opt) ==
    IF Truthy(opt.unicodes) \/ opt.unicode.t # "undefined"
    THEN <<opt.unicode>>
    ELSE <<>>

\* this.xMin = options.xMin || 0, and likewise yMin, xMax, yMax, advanceWidth.
GlyphNumber(j) == Or(j, Num(N(0))).v

\* Glyph.prototype.addUnicode: the new [unicode, unicodes].
addUnicode(uni, unis, u) ==
    [unicode |-> IF Len(unis) = 0 THEN u ELSE uni,
     unicodes |-> Append(unis, u)]

DefaultFontSizePath == 72
DefaultFontSizeMetrics == 24

\* getPathCommand with the control point of a quadratic curve left unflipped.
getPathCommandNoFlip(p, cmd, x, y, scale) ==
    LET X(v) == RAdd(x, RMul(v, scale))
        Y(v) == RAdd(y, RMul(RNeg(v), scale))
    IN  CASE cmd.type = "M" -> moveTo(p, X(cmd.x), Y(cmd.y))
          [] cmd.type = "L" -> lineTo(p, X(cmd.x), Y(cmd.y))
          [] cmd.type = "Q" ->
                quadraticCurveTo(p, X(cmd.x1), RAdd(y, RMul(cmd.y1, scale)), X(cmd.x), Y(cmd.y))
          [] cmd.type = "C" -> curveTo(p, X(cmd.x1), Y(cmd.y1), X(cmd.x2), Y(cmd.y2),
                                       X(cmd.x), Y(cmd.y))
          [] cmd.type = "Z" -> closePath(p)
          [] OTHER -> p

\* One pass of getPath's loop: the command p receives for cmd.
getPathCommand(p, cmd, x, y, scale) ==
    LET X(v) == RAdd(x, RMul(v, scale))
        Y(v) == RAdd(y, RMul(RNeg(v), scale))
    IN  CASE cmd.type = "M" -> moveTo(p, X(cmd.x), Y(cmd.y))
          [] cmd.type = "L" -> lineTo(p, X(cmd.x), Y(cmd.y))
          [] cmd.type = "Q" -> quadraticCurveTo(p, X(cmd.x1), Y(cmd.y1), X(cmd.x), Y(cmd.y))
          [] cmd.type = "C" -> curveTo(p, X(cmd.x1), Y(cmd.y1), X(cmd.x2), Y(cmd.y2),
                                       X(cmd.x), Y(cmd.y))
          [] cmd.type = "Z" -> closePath(p)
          [] OTHER -> p

RECURSIVE getPathLoop(_, _, _, _, _, _)
getPathLoop(p, cmds, i, x, y, scale) ==
    IF i > Len(cmds) THEN p
    ELSE getPathLoop(getPathCommand(p, cmds[i], x, y, scale), cmds, i + 1, x, y, scale)

\* scale = 1 / this.font.unitsPerEm * fontSize
Scale(upm, fontSize) == RMul(RDiv(N(1), upm), fontSize)

\* Glyph.prototype.getPath(x, y, fontSize): a new Path.
getPath(cmds, upm, x, y, fontSize) ==
    LET x0 == OrDefault(x, Num(N(0))).v
        y0 == OrDefault(y, Num(N(0))).v
        fs == OrDefault(fontSize, Num(N(DefaultFontSizePath))).v
        scale == Scale(upm, fs)
    IN  [Path EXCEPT !.commands = getPathLoop(<<>>, cmds, 1, x0, y0, scale)]

\* check.argument(predicate, message) of ./check: throws when the predicate is false.
checkArgumentThrows(predicate) == ~predicate

\* getContoursStep that forgets to start a new contour after a flush.
getContoursStepKeepCurrent(st, pt) ==
    LET cur == Append(st.currentContour, pt)
    IN  IF pt.lastPointOfContour
        THEN [contours |-> Append(st.contours, cur), currentContour |-> cur]
        ELSE [contours |-> st.contours, currentContour |-> cur]

\* getContoursStep that flushes at every point, flagged or not.
getContoursStepAlwaysFlush(st, pt) ==
    [contours |-> Append(st.contours, Append(st.currentContour, pt)),
     currentContour |-> <<>>]

\* One pass of getContours' loop over [contours, currentContour].
getContoursStep(st, pt) ==
    LET cur == Append(st.currentContour, pt)
    IN  IF pt.lastPointOfContour
        THEN [contours |-> Append(st.contours, cur), currentContour |-> <<>>]
        ELSE [contours |-> st.contours, currentContour |-> cur]

RECURSIVE getContoursLoop(_, _, _)
getContoursLoop(st, pts, i) ==
    IF i > Len(pts) THEN st
    ELSE getContoursLoop(getContoursStep(st, pts[i]), pts, i + 1)

\* Glyph.prototype.getContours: [threw, value].
getContours(pts) ==
    IF pts.t = "undefined" THEN [threw |-> FALSE, value |-> <<>>]
    ELSE LET st == getContoursLoop([contours |-> <<>>, currentContour |-> <<>>], pts.v, 1)
         IN  IF checkArgumentThrows(Len(st.currentContour) = 0)
             THEN [threw |-> TRUE, value |-> <<>>]
             ELSE [threw |-> FALSE, value |-> st.contours]

\* Infinity and -Infinity, what Math.min() and Math.max() of nothing give.
PosInf == <<1, 0>>
NegInf == <<-1, 0>>

\* MetricsCoords without the second control point of a cubic curve.
MetricsCoordsNoSecondControl(cmd, axis) ==
    (IF cmd.type # "Z" THEN <<IF axis = "x" THEN cmd.x ELSE cmd.y>> ELSE <<>>)
    \o (IF cmd.type = "Q" \/ cmd.type = "C"
        THEN <<IF axis = "x" THEN cmd.x1 ELSE cmd.y1>> ELSE <<>>)

\* The x (or y) values getMetrics pushes for one command.
MetricsCoords(cmd, axis) ==
    (IF cmd.type # "Z" THEN <<IF axis = "x" THEN cmd.x ELSE cmd.y>> ELSE <<>>)
    \o (IF cmd.type = "Q" \/ cmd.type = "C"
        THEN <<IF axis = "x" THEN cmd.x1 ELSE cmd.y1>> ELSE <<>>)
    \o (IF cmd.type = "C" THEN <<IF axis = "x" THEN cmd.x2 ELSE cmd.y2>> ELSE <<>>)

RECURSIVE CollectCoords(_, _, _)
CollectCoords(cmds, i, axis) ==
    IF i > Len(cmds) THEN <<>>
    ELSE MetricsCoords(cmds[i], axis) \o CollectCoords(cmds, i + 1, axis)

\* Glyph.prototype.getMetrics.  With no coordinate at all the bounds are the
\* infinities, and advanceWidth - 0 - (-Infinity - Infinity) is Infinity.
getMetrics(cmds, adv) ==
    LET xCoords == CollectCoords(cmds, 1, "x")
        yCoords == CollectCoords(cmds, 1, "y")
    IN  IF xCoords = <<>>
        THEN [xMin |-> PosInf, yMin |-> PosInf, xMax |-> NegInf, yMax |-> NegInf,
              leftSideBearing |-> N(0), rightSideBearing |-> PosInf]
        ELSE LET m == [xMin |-> MinOf(xCoords), yMin |-> MinOf(yCoords),
                       xMax |-> MaxOf(xCoords), yMax |-> MaxOf(yCoords),
                       leftSideBearing |-> N(0)]
             IN  [xMin |-> m.xMin, yMin |-> m.yMin, xMax |-> m.xMax, yMax |-> m.yMax,
                  leftSideBearing |-> m.leftSideBearing,
                  rightSideBearing |->
                      RSub(RSub(adv, m.leftSideBearing), RSub(m.xMax, m.xMin))]

----------------------------------------------------------------------------
(* Path: serialization *)

\* floatToString(v) inside toPathData.
floatToString(v, decimalPlaces) ==
    IF MathRound(v) = v THEN IntToString(MathRound(v)[1])
    ELSE toFixed(v, decimalPlaces)

RECURSIVE packValuesLoopPositiveOnly(_, _, _, _)
\* packValuesLoop that tests v > 0 where the code tests v >= 0.
packValuesLoopPositiveOnly(s, args, i, decimalPlaces) ==
    IF i > Len(args) THEN s
    ELSE LET v == args[i]
             sp == IF RLess(N(0), v) /\ i > 1 THEN <<" ">> ELSE <<>>
         IN  packValuesLoopPositiveOnly(s \o sp \o floatToString(v, decimalPlaces),
                                        args, i + 1, decimalPlaces)

RECURSIVE packValuesLoop(_, _, _, _)
packValuesLoop(s, args, i, decimalPlaces) ==
    IF i > Len(args) THEN s
    ELSE LET v == args[i]
             sp == IF RLeq(N(0), v) /\ i > 1 THEN <<" ">> ELSE <<>>
         IN  packValuesLoop(s \o sp \o floatToString(v, decimalPlaces),
                            args, i + 1, decimalPlaces)

\* packValues(...) inside toPathData.
packValues(args, decimalPlaces) == packValuesLoop(<<>>, args, 1, decimalPlaces)

\* What one pass of toPathData's loop adds to d.
toPathDataCommand(cmd, dp) ==
    CASE cmd.type = "M" -> <<"M">> \o packValues(<<cmd.x, cmd.y>>, dp)
      [] cmd.type = "L" -> <<"L">> \o packValues(<<cmd.x, cmd.y>>, dp)
      [] cmd.type = "C" ->
            <<"C">> \o packValues(<<cmd.x1, cmd.y1, cmd.x2, cmd.y2, cmd.x, cmd.y>>, dp)
      [] cmd.type = "Q" -> <<"Q">> \o packValues(<<cmd.x1, cmd.y1, cmd.x, cmd.y>>, dp)
      [] cmd.type = "Z" -> <<"Z">>
      [] OTHER -> <<>>

RECURSIVE toPathDataLoop(_, _, _, _)
toPathDataLoop(d, cmds, i, dp) ==
    IF i > Len(cmds) THEN d
    ELSE toPathDataLoop(d \o toPathDataCommand(cmds[i], dp), cmds, i + 1, dp)

DefaultDecimalPlaces == 2

\* Path.prototype.toPathData(decimalPlaces)
toPathData(cmds, decimalPlaces) ==
    LET dp == OrDefault(decimalPlaces, Num(N(DefaultDecimalPlaces))).v[1]
    IN  toPathDataLoop(<<>>, cmds, 1, dp)

\* ToInt32(ToNumber(j)) of a fill value: null is 0, a string of digits is its
\* number, '' is 0 and any other string is NaN, which ToInt32 makes 0.
ToInt32(j) ==
    CASE j.t = "null" -> 0
      [] j.t = "string" ->
            IF \A i \in 1..Len(j.v) : IsDigit(j.v[i]) THEN DigitsToNat(j.v) ELSE 0
      [] j.t = "number" -> Floor(j.v)

RECURSIVE BitAnd(_, _)
\* a & b of two non-negative integers.
BitAnd(a, b) ==
    IF a = 0 \/ b = 0 THEN 0
    ELSE 2 * BitAnd(a \div 2, b \div 2) + (IF a % 2 = 1 /\ b % 2 = 1 THEN 1 ELSE 0)

\* this.fill & this.fill !== 'black': !== binds tighter than &.
toSVGFillTest(f) == BitAnd(ToInt32(f), IF f # Str(Black) THEN 1 ELSE 0) # 0

\* The fill attribute toSVG writes.
toSVGFill(f) ==
    IF toSVGFillTest(f)
    THEN IF f.t = "null" THEN <<" ", "f", "i", "l", "l", "=", "\"", "n", "o", "n", "e", "\"">>
         ELSE <<" ", "f", "i", "l", "l", "=", "\"">> \o f.v \o <<"\"">>
    ELSE <<>>

\* The stroke attributes toSVG writes.
toSVGStroke(s, w) ==
    IF Truthy(s)
    THEN <<" ", "s", "t", "r", "o", "k", "e", "=", "\"">> \o s.v
         \o 
            <<"\"", " ", "s", "t", "r", "o", "k", "e", "-", "w", "i", "d", "t", "h", "=", "\"">> \o NumberToString(w) \o <<"\"">>
    ELSE <<>>

\* Path.prototype.toSVG(decimalPlaces)
toSVG(path, decimalPlaces) ==
    <<"<", "p", "a", "t", "h", " ", "d", "=", "\"">> \o toPathData(path.commands, decimalPlaces) \o <<"\"">>
    \o toSVGFill(path.fill) \o toSVGStroke(path.stroke, path.strokeWidth)
    \o <<"/", ">">>

----------------------------------------------------------------------------
(* Path: replay into a sink.  A sink call is [op, args]; the calls a method *)
(* makes are listed in the order it makes them.                            *)

Call(op, args) == [op |-> op, args |-> args]

\* drawCommand that passes a quadratic curve's end point before its control point.
drawCommandQuadSwapped(cmd) ==
    CASE cmd.type = "M" -> <<Call("moveTo", <<Num(cmd.x), Num(cmd.y)>>)>>
      [] cmd.type = "L" -> <<Call("lineTo", <<Num(cmd.x), Num(cmd.y)>>)>>
      [] cmd.type = "C" ->
            <<Call("bezierCurveTo", <<Num(cmd.x1), Num(cmd.y1), Num(cmd.x2), Num(cmd.y2),
                                      Num(cmd.x), Num(cmd.y)>>)>>
      [] cmd.type = "Q" ->
            <<Call("quadraticCurveTo", <<Num(cmd.x), Num(cmd.y), Num(cmd.x1), Num(cmd.y1)>>)>>
      [] cmd.type = "Z" -> <<Call("closePath", <<>>)>>
      [] OTHER -> <<>>

\* The context call one pass of draw's loop makes.
drawCommand(cmd) ==
    CASE cmd.type = "M" -> <<Call("moveTo", <<Num(cmd.x), Num(cmd.y)>>)>>
      [] cmd.type = "L" -> <<Call("lineTo", <<Num(cmd.x), Num(cmd.y)>>)>>
      [] cmd.type = "C" ->
            <<Call("bezierCurveTo", <<Num(cmd.x1), Num(cmd.y1), Num(cmd.x2), Num(cmd.y2),
                                      Num(cmd.x), Num(cmd.y)>>)>>
      [] cmd.type = "Q" ->
            <<Call("quadraticCurveTo", <<Num(cmd.x1), Num(cmd.y1), Num(cmd.x), Num(cmd.y)>>)>>
      [] cmd.type = "Z" -> <<Call("closePath", <<>>)>>
      [] OTHER -> <<>>

RECURSIVE drawLoop(_, _, _)
drawLoop(log, cmds, i) ==
    IF i > Len(cmds) THEN log
    ELSE drawLoop(log \o drawCommand(cmds[i]), cmds, i + 1)

\* Path.prototype.draw(ctx): the calls and property assignments made on ctx.
draw(path) ==
    drawLoop(<<Call("beginPath", <<>>)>>, path.commands, 1)
    \o (IF Truthy(path.fill)
        THEN <<Call("fillStyle=", <<path.fill>>), Call("fill", <<>>)>>
        ELSE <<>>)
    \o (IF Truthy(path.stroke)
        THEN <<Call("strokeStyle=", <<path.stroke>>),
               Call("lineWidth=", <<Num(path.strokeWidth)>>),
               Call("stroke", <<>>)>>
        ELSE <<>>)

FixdPlaces == 2

\* fixd(v) inside drawSVG: a number when v is whole, else the string v.toFixed(2).
fixd(v) == IF MathRound(v) = v THEN Num(MathRound(v)) ELSE Str(toFixed(v, FixdPlaces))

NoSeg == Call("", <<>>)

\* The segment one pass of drawSVG's loop creates; seg keeps its earlier value
\* when the command has none of the five types.
drawSVGSeg(seg, cmd) ==
    CASE cmd.type = "M" -> Call("createSVGPathSegMovetoAbs", <<fixd(cmd.x), fixd(cmd.y)>>)
      [] cmd.type = "L" -> Call("createSVGPathSegLinetoAbs", <<fixd(cmd.x), fixd(cmd.y)>>)
      [] cmd.type = "C" ->
            Call("createSVGPathSegCurvetoCubicAbs",
                 <<fixd(cmd.x), fixd(cmd.y), fixd(cmd.x1), fixd(cmd.y1),
                   fixd(cmd.x2), fixd(cmd.y2)>>)
      [] cmd.type = "Q" ->
            Call("createSVGPathSegCurvetoQuadraticAbs",
                 <<fixd(cmd.x), fixd(cmd.y), fixd(cmd.x1), fixd(cmd.y1)>>)
      [] cmd.type = "Z" -> Call("createSVGPathSegClosePath", <<>>)
      [] OTHER -> seg

RECURSIVE drawSVGLoop(_, _, _, _)
\* sl.appendItem(seg) is listed as the segment it appends.
drawSVGLoop(log, seg, cmds, i) ==
    IF i > Len(cmds) THEN log
    ELSE LET s == drawSVGSeg(seg, cmds[i])
         IN  drawSVGLoop(IF s # NoSeg THEN Append(log, s) ELSE log, s, cmds, i + 1)

\* Path.prototype.drawSVG(parent): the calls made on the document, the parent
\* and the new path element.
drawSVG(path) ==
    drawSVGLoop(<<Call("createElementNS", <<>>), Call("appendChild", <<>>)>>,
                NoSeg, path.commands, 1)
    \o (IF Truthy(path.fill)
        THEN <<Call("setAttribute fill", <<path.fill>>)>>
        ELSE <<>>)
    \o (IF Truthy(path.stroke)
        THEN <<Call("setAttribute stroke", <<path.stroke>>),
               Call("setAttribute strokeWidth", <<Num(path.strokeWidth)>>)>>
        ELSE <<>>)

----------------------------------------------------------------------------
(* Glyph: diagnostics *)

Blue == <<"b", "l", "u", "e">>
Green == <<"g", "r", "e", "e", "n">>
Far == 10000

\* draw.line(ctx, x1, y1, x2, y2) of ./draw, as the call drawMetrics makes.
line(x1, y1, x2, y2) == Call("line", <<Num(x1), Num(y1), Num(x2), Num(y2)>>)

\* The font size drawMetrics uses when none is given.
drawMetricsFontSize(fontSize) == OrDefault(fontSize, Num(N(DefaultFontSizeMetrics))).v

\* Glyph.prototype.drawMetrics(ctx, x, y, fontSize) of a glyph g.
drawMetrics(g, x, y, fontSize) ==
    LET x0 == OrDefault(x, Num(N(0))).v
        y0 == OrDefault(y, Num(N(0))).v
        scale == Scale(g.unitsPerEm, drawMetricsFontSize(fontSize))
        X(v) == RAdd(x0, RMul(v, scale))
        Y(v) == RAdd(y0, RMul(RNeg(v), scale))
        lo == N(-Far)
        hi == N(Far)
    IN  <<Call("lineWidth=", <<Num(N(1))>>),
          Call("strokeStyle=", <<Str(Black)>>),
          line(x0, lo, x0, hi),
          line(lo, y0, hi, y0),
          Call("strokeStyle=", <<Str(Blue)>>),
          line(X(g.xMin), lo, X(g.xMin), hi),
          line(X(g.xMax), lo, X(g.xMax), hi),
          line(lo, Y(g.yMin), hi, Y(g.yMin)),
          line(lo, Y(g.yMax), hi, Y(g.yMax)),
          Call("strokeStyle=", <<Str(Green)>>),
          line(X(g.advanceWidth), lo, X(g.advanceWidth), hi)>>

----------------------------------------------------------------------------
(* The state machine *)

MaxCommands == 2
MaxUnicodes == 3
MaxPoints == 3

\* function Glyph(options), then the loader's glyph.points = pts.
Glyph(opt, pts) ==
    /\ options = opt
    /\ unitsPerEm = opt.font
    /\ unicode = GlyphUnicode(opt)
    /\ unicodes = GlyphUnicodes(opt)
    /\ xMin = GlyphNumber(opt.xMin)
    /\ yMin = GlyphNumber(opt.yMin)
    /\ xMax = GlyphNumber(opt.xMax)
    /\ yMax = GlyphNumber(opt.yMax)
    /\ advanceWidth = GlyphNumber(opt.advanceWidth)
    /\ points = pts
    /\ commands = opt.path.commands
    /\ fill = opt.path.fill
    /\ stroke = opt.path.stroke
    /\ strokeWidth = opt.path.strokeWidth
    /\ call = [op |-> "Glyph", args |-> <<>>]
    /\ ret = <<>>
    /\ ctx = <<>>

\* Options that leave every field at its default, with an empty new Path.
PlainOptions ==
    [font |-> N(2048), unicode |-> Undefined, unicodes |-> NoArray,
     xMin |-> Undefined, yMin |-> Undefined, xMax |-> Undefined, yMax |-> Undefined,
     advanceWidth |-> Undefined, path |-> Path]

glyphVars == <<options, unitsPerEm, unicode, unicodes, xMin, yMin, xMax, yMax,
               advanceWidth, points>>
styleVars == <<fill, stroke, strokeWidth>>

ThisPath == [commands |-> commands, fill |-> fill, stroke |-> stroke,
             strokeWidth |-> strokeWidth]

ThisGlyph == [unitsPerEm |-> unitsPerEm, xMin |-> xMin, yMin |-> yMin, xMax |-> xMax,
              yMax |-> yMax, advanceWidth |-> advanceWidth]

\* A builder called on the glyph's path.
Build(op, args, cmds) ==
    /\ Len(commands) < MaxCommands
    /\ commands' = cmds
    /\ call' = [op |-> op, args |-> args]
    /\ ret' = <<>>
    /\ ctx' = <<>>
    /\ UNCHANGED <<glyphVars, styleVars>>

MoveTo(p) == Build("moveTo", <<Num(p[1]), Num(p[2])>>, moveTo(commands, p[1], p[2]))

LineTo(p) == Build("lineTo", <<Num(p[1]), Num(p[2])>>, lineTo(commands, p[1], p[2]))

QuadraticCurveTo(p1, p) ==
    Build("quadraticCurveTo", <<Num(p1[1]), Num(p1[2]), Num(p[1]), Num(p[2])>>,
          quadraticCurveTo(commands, p1[1], p1[2], p[1], p[2]))

CurveTo(p1, p2, p) ==
    Build("curveTo",
          <<Num(p1[1]), Num(p1[2]), Num(p2[1]), Num(p2[2]), Num(p[1]), Num(p[2])>>,
          curveTo(commands, p1[1], p1[2], p2[1], p2[2], p[1], p[2]))

ClosePath == Build("closePath", <<>>, closePath(commands))

\* The caller's path.fill = f, path.stroke = s, path.strokeWidth = w.
SetFill(f) ==
    /\ fill' = f
    /\ call' = [op |-> "fill=", args |-> <<f>>]
    /\ ret' = <<>>
    /\ ctx' = <<>>
    /\ UNCHANGED <<glyphVars, commands, stroke, strokeWidth>>

SetStroke(s) ==
    /\ stroke' = s
    /\ call' = [op |-> "stroke=", args |-> <<s>>]
    /\ ret' = <<>>
    /\ ctx' = <<>>
    /\ UNCHANGED <<glyphVars, commands, fill, strokeWidth>>

SetStrokeWidth(w) ==
    /\ strokeWidth' = w
    /\ call' = [op |-> "strokeWidth=", args |-> <<Num(w)>>]
    /\ ret' = <<>>
    /\ ctx' = <<>>
    /\ UNCHANGED <<glyphVars, commands, fill, stroke>>

\* A method that changes nothing of the glyph or its path.
Query(op, args, result, sink) ==
    /\ call' = [op |-> op, args |-> args]
    /\ ret' = result
    /\ ctx' = sink
    /\ UNCHANGED <<glyphVars, commands, styleVars>>

AddUnicode(u) ==
    /\ Len(unicodes) < MaxUnicodes
    /\ LET r == addUnicode(unicode, unicodes, u)
       IN  /\ unicode' = r.unicode
           /\ unicodes' = r.unicodes
    /\ call' = [op |-> "addUnicode", args |-> <<u>>]
    /\ ret' = <<>>
    /\ ctx' = <<>>
    /\ UNCHANGED <<options, unitsPerEm, xMin, yMin, xMax, yMax, advanceWidth, points,
                   commands, styleVars>>

GetPath(x, y, fontSize) ==
    Query("getPath", <<x, y, fontSize>>, getPath(commands, unitsPerEm, x, y, fontSize), <<>>)

GetContours == Query("getContours", <<>>, getContours(points), <<>>)

GetMetrics == Query("getMetrics", <<>>, getMetrics(commands, advanceWidth), <<>>)

DrawMetrics(x, y, fontSize) ==
    Query("drawMetrics", <<x, y, fontSize>>, <<>>, drawMetrics(ThisGlyph, x, y, fontSize))

Draw == Query("draw", <<>>, <<>>, draw(ThisPath))

DrawSVG == Query("drawSVG", <<>>, <<>>, drawSVG(ThisPath))

ToPathData(decimalPlaces) ==
    Query("toPathData", <<decimalPlaces>>, toPathData(commands, decimalPlaces), <<>>)

ToSVG(decimalPlaces) ==
    Query("toSVG", <<decimalPlaces>>, toSVG(ThisPath, decimalPlaces), <<>>)

----------------------------------------------------------------------------
(* Outlines in font units: getPath and getMetrics *)

\* Move(0,0), Line(10,0), Line(10,10), Line(0,10), Close.
Square ==
    <<[type |-> "M", x |-> N(0), y |-> N(0)], [type |-> "L", x |-> N(10), y |-> N(0)],
      [type |-> "L", x |-> N(10), y |-> N(10)], [type |-> "L", x |-> N(0), y |-> N(10)],
      [type |-> "Z"]>>

OutlinePoints == {<<N(-3), N(7)>>, <<N(10), N(-4)>>}
OutlineControls == {<<N(20), N(-9)>>}
FontAndAdvance == {<<N(2), Undefined>>, <<N(2048), Num(N(12))>>}
OriginXs == {Undefined, Num(N(5))}
OriginYs == {Undefined, Num(<<-3, 2>>)}
FontSizes == {Undefined, Num(N(2))}

InitOutline ==
    \E g \in FontAndAdvance, cmds \in {<<>>, Square} :
        Glyph([PlainOptions EXCEPT !.font = g[1], !.advanceWidth = g[2],
                                   !.path = [Path EXCEPT !.commands = cmds]],
              NoArray)

NextOutline ==
    \/ \E p \in OutlinePoints : MoveTo(p)
    \/ \E p \in OutlinePoints : LineTo(p)
    \/ \E p1, p \in OutlinePoints : QuadraticCurveTo(p1, p)
    \/ \E p1, p \in OutlinePoints, p2 \in OutlineControls : CurveTo(p1, p2, p)
    \/ ClosePath
    \/ \E x \in OriginXs, y \in OriginYs, fs \in FontSizes : GetPath(x, y, fs)
    \/ GetMetrics

SpecOutline == InitOutline /\ [][NextOutline]_vars

\* The coordinate pairs a command may carry, as field names.
CoordPairs == {<<"x", "y">>, <<"x1", "y1">>, <<"x2", "y2">>}

\* The argument of the last call at position i, or d when it was left out.
ArgOr(i, d) == IF call.args[i].t = "undefined" THEN d ELSE call.args[i].v

CommandTypes == {commands[i].type : i \in 1..Len(commands)}

\* C1: getPath returns a path with as many commands as the stored outline and
\* the same type at every index, and every coordinate pair (px, py) of every
\* command becomes (originX + px*scale, originY - py*scale) with
\* scale = fontSize / unitsPerEm; with scale 1 and origin (0,0), (px, -py).
C1_GetPathTransform ==
    call.op = "getPath" =>
        LET ox == ArgOr(1, N(0))
            oy == ArgOr(2, N(0))
            fs == ArgOr(3, N(72))
            s == RDiv(fs, unitsPerEm)
        IN  /\ Len(ret.commands) = Len(commands)
            /\ \A i \in 1..Len(commands) :
                LET c == commands[i]
                    r == ret.commands[i]
                IN  /\ r.type = c.type
                    /\ DOMAIN r = DOMAIN c
                    /\ \A pr \in CoordPairs :
                        pr[1] \in DOMAIN c =>
                            /\ r[pr[1]] = RAdd(ox, RMul(c[pr[1]], s))
                            /\ r[pr[2]] = RSub(oy, RMul(c[pr[2]], s))
                            /\ (s = N(1) /\ ox = N(0) /\ oy = N(0)) =>
                                    (r[pr[1]] = c[pr[1]] /\ r[pr[2]] = RNeg(c[pr[2]]))

\* getPath was called with an origin and no font size on an outline holding a
\* quadratic and a cubic curve.
C1_Witness ==
    /\ call.op = "getPath"
    /\ call.args[1].t = "number" /\ call.args[2].t = "number"
    /\ call.args[3].t = "undefined"
    /\ {"Q", "C"} \subseteq CommandTypes

\* Every x (or y) value of every endpoint and control point of the outline.
AllCoords(axis) ==
    {commands[i][pr[axis]] :
        <<i, pr>> \in {q \in (1..Len(commands)) \X CoordPairs :
                          q[2][axis] \in DOMAIN commands[q[1]]}}

IsMinOf(m, S) == m \in S /\ \A v \in S : RLeq(m, v)
IsMaxOf(m, S) == m \in S /\ \A v \in S : RLeq(v, m)

\* C8: for an outline with at least one coordinate-bearing command, getMetrics
\* returns the minimum and maximum over every x and every y of every endpoint
\* and control point, leftSideBearing 0 and rightSideBearing =
\* advanceWidth - leftSideBearing - (xMax - xMin); the square with advance
\* width 12 gives 0, 10, 0, 10, 0 and 2.
C8_GetMetrics ==
    (call.op = "getMetrics" /\ AllCoords(1) # {}) =>
        /\ IsMinOf(ret.xMin, AllCoords(1))
        /\ IsMaxOf(ret.xMax, AllCoords(1))
        /\ IsMinOf(ret.yMin, AllCoords(2))
        /\ IsMaxOf(ret.yMax, AllCoords(2))
        /\ ret.leftSideBearing = N(0)
        /\ ret.rightSideBearing =
              RSub(RSub(advanceWidth, ret.leftSideBearing), RSub(ret.xMax, ret.xMin))
        /\ (commands = Square /\ advanceWidth = N(12)) =>
              ret = [xMin |-> N(0), xMax |-> N(10), yMin |-> N(0), yMax |-> N(10),
                     leftSideBearing |-> N(0), rightSideBearing |-> N(2)]

\* getMetrics was called on the square with advance width 12.
C8_Witness ==
    /\ call.op = "getMetrics"
    /\ commands = Square
    /\ advanceWidth = N(12)

----------------------------------------------------------------------------
(* Unicode code points: the constructor and addUnicode *)

CodePoints == {Num(N(0)), Num(N(65)), Num(N(66))}
UnicodeOptions == {Undefined, Num(N(0)), Num(N(65))}
UnicodesOptions == {NoArray, Arr(<<>>), Arr(<<Num(N(65)), Num(N(66))>>)}

InitUnicode ==
    \E u \in UnicodeOptions, us \in UnicodesOptions :
        Glyph([PlainOptions EXCEPT !.unicode = u, !.unicodes = us], NoArray)

NextUnicode == \E u \in CodePoints : AddUnicode(u)

SpecUnicode == InitUnicode /\ [][NextUnicode]_vars

\* C6: on a glyph newly constructed without a unicode code point, whatever
\* its other options, addUnicode(U) leaves unicode = U and unicodes = [U] (so
\* that a following addUnicode(V) leaves U and [U, V]); every addUnicode call
\* appends its argument at the end of unicodes and changes unicode only when
\* unicodes was empty before the call.
C6_AddUnicode ==
    [][call'.op = "addUnicode" =>
          LET u == call'.args[1]
          IN  /\ unicodes' = Append(unicodes, u)
              /\ unicode' = (IF unicodes = <<>> THEN u ELSE unicode)
              /\ (call.op = "Glyph" /\ options.unicode = Undefined) =>
                    (unicode' = u /\ unicodes' = <<u>>)]_vars

\* C7: whenever unicodes is non-empty, unicode equals its first element.
C7_UnicodeIsFirst == unicodes # <<>> => unicode = unicodes[1]

----------------------------------------------------------------------------
(* Contours: getContours over the loader's point list *)

ContourPoints ==
    {[x |-> N(0), y |-> N(0), onCurve |-> TRUE, lastPointOfContour |-> last] :
        last \in BOOLEAN}
    \cup {[x |-> N(1), y |-> N(2), onCurve |-> FALSE, lastPointOfContour |-> last] :
        last \in BOOLEAN}

PointLists == UNION {[1..n -> ContourPoints] : n \in 0..MaxPoints}

InitContours ==
    \E pts \in {NoArray} \cup {Arr(l) : l \in PointLists} : Glyph(PlainOptions, pts)

NextContours == GetContours

SpecContours == InitContours /\ [][NextContours]_vars

Flagged(l) == {i \in 1..Len(l) : l[i].lastPointOfContour}

\* Points stay unflushed after the scan: the list does not end at a flagged point.
LeavesUnflushed(l) == l # <<>> /\ ~l[Len(l)].lastPointOfContour

\* The result is k contours, each ending at a flagged point, whose
\* concatenation is the list l.
IsPartitionOf(r, l) ==
    /\ ~r.threw
    /\ Len(r.value) = Cardinality(Flagged(l))
    /\ \A j \in 1..Len(r.value) :
          r.value[j] # <<>> /\ r.value[j][Len(r.value[j])].lastPointOfContour
    /\ Concat(r.value) = l

\* C4 as stated: for every point list with k flagged points getContours
\* returns k contours, each ending at a flagged point, whose concatenation is
\* the list, and leaves the list unchanged.
C4_Original ==
    [][(call'.op = "getContours" /\ points.t = "array") =>
          (points' = points /\ IsPartitionOf(ret', points.v))]_vars

\* C4 amended: the same for every point list that is empty or ends at a
\* flagged point; the list is left unchanged in every case.
C4_ContoursPartition ==
    [][(call'.op = "getContours" /\ points.t = "array") =>
          /\ points' = points
          /\ ~LeavesUnflushed(points.v) => IsPartitionOf(ret', points.v)]_vars

\* getContours returned two contours for a list of three points.
C4_Witness ==
    /\ call.op = "getContours"
    /\ points.t = "array" /\ Len(points.v) = 3
    /\ ~ret.threw /\ Len(ret.value) = 2

\* C5 as stated: getContours raises the error and returns no list on every
\* list that leaves unflushed points, in particular on every list with no
\* flagged point; without a point list it returns the empty list, no error.
C5_Original ==
    call.op = "getContours" =>
        /\ (points.t = "array" /\ LeavesUnflushed(points.v)) => ret.threw
        /\ (points.t = "array" /\ Flagged(points.v) = {}) => ret.threw
        /\ points.t = "undefined" => ret = [threw |-> FALSE, value |-> <<>>]

\* C5 amended: the error is raised on every list that leaves unflushed points,
\* in particular on every non-empty list with no flagged point.
C5_ContoursError ==
    call.op = "getContours" =>
        /\ (points.t = "array" /\ LeavesUnflushed(points.v)) => ret.threw
        /\ (points.t = "array" /\ points.v # <<>> /\ Flagged(points.v) = {}) => ret.threw
        /\ points.t = "undefined" => ret = [threw |-> FALSE, value |-> <<>>]

\* getContours threw on a list whose first point is flagged and whose last is not.
C5_Witness ==
    /\ call.op = "getContours"
    /\ points.t = "array" /\ Len(points.v) = 3
    /\ points.v[1].lastPointOfContour
    /\ ret.threw

----------------------------------------------------------------------------
(* Diagnostics: drawMetrics *)

BoxOptions ==
    [xMin : {Undefined, Num(N(-3))}, yMin : {Undefined, Num(N(-4))},
     xMax : {Undefined, Num(N(10))}, yMax : {Undefined, Num(N(7))}]

InitMetricsLines ==
    \E g \in FontAndAdvance, b \in BoxOptions :
        Glyph([PlainOptions EXCEPT !.font = g[1], !.advanceWidth = g[2],
                                   !.xMin = b.xMin, !.yMin = b.yMin,
                                   !.xMax = b.xMax, !.yMax = b.yMax],
              NoArray)

NextMetricsLines ==
    \E x \in OriginXs, y \in OriginYs, fs \in FontSizes : DrawMetrics(x, y, fs)

SpecMetricsLines == InitMetricsLines /\ [][NextMetricsLines]_vars

\* Where getPath, called with the arguments of the last call, puts the points
\* (xMin, yMin), (xMax, yMax) and (advanceWidth, 0).
ProbePath ==
    getPath(<<[type |-> "M", x |-> xMin, y |-> yMin],
              [type |-> "M", x |-> xMax, y |-> yMax],
              [type |-> "M", x |-> advanceWidth, y |-> N(0)]>>,
            unitsPerEm, call.args[1], call.args[2], call.args[3]).commands

\* C10: drawMetrics places the bounding-box and advance-width lines with the
\* scale and flip getPath uses for the same arguments, given or left out.
C10_MetricsLinesAtPathScale ==
    call.op = "drawMetrics" =>
        LET lo == N(-Far)
            hi == N(Far)
            p == ProbePath
        IN  /\ ctx[6] = line(p[1].x, lo, p[1].x, hi)
            /\ ctx[7] = line(p[2].x, lo, p[2].x, hi)
            /\ ctx[8] = line(lo, p[1].y, hi, p[1].y)
            /\ ctx[9] = line(lo, p[2].y, hi, p[2].y)
            /\ ctx[11] = line(p[3].x, lo, p[3].x, hi)

----------------------------------------------------------------------------
(* Path data: toPathData over paths with whole and fractional coordinates *)

PathPoints == {<<<<-5, 4>>, <<1, 8>>>>, <<N(10), N(-3)>>, <<<<1, 2>>, N(0)>>}
PathControls == {<<N(7), <<-1, 2>>>>}
DecimalPlaces == {Undefined, Num(N(0)), Num(N(1)), Num(N(3))}

InitPathData == Glyph(PlainOptions, NoArray)

NextPathData ==
    \/ \E p \in PathPoints : MoveTo(p)
    \/ \E p \in PathPoints : LineTo(p)
    \/ \E p1, p \in PathPoints : QuadraticCurveTo(p1, p)
    \/ \E p1, p \in PathPoints, p2 \in PathControls : CurveTo(p1, p2, p)
    \/ ClosePath
    \/ \E dp \in DecimalPlaces : ToPathData(dp)

SpecPathData == InitPathData /\ [][NextPathData]_vars

Letters == {"M", "L", "Q", "C", "Z"}

\* The last index of the piece of s that starts at 1 and runs up to the next
\* character of Starts (or to the end of s).
PieceEnd(s, Starts) ==
    IF \E j \in 2..Len(s) : s[j] \in Starts
    THEN (CHOOSE j \in 2..Len(s) :
              s[j] \in Starts /\ \A k \in 2..(j - 1) : s[k] \notin Starts) - 1
    ELSE Len(s)

RECURSIVE Pieces(_, _)
\* s cut before every character of Starts.
Pieces(s, Starts) ==
    IF s = <<>> THEN <<>>
    ELSE LET e == PieceEnd(s, Starts)
         IN  <<SubSeq(s, 1, e)>> \o Pieces(SubSeq(s, e + 1, Len(s)), Starts)

\* A written number: an optional minus sign, digits, and possibly a point
\* followed by digits.
UnsignedText(t) == IF t # <<>> /\ t[1] = "-" THEN Tail(t) ELSE t
PointAt(t) == {i \in 1..Len(t) : t[i] = "."}
DigitsAfterPoint(t) == IF PointAt(t) = {} THEN 0 ELSE Len(t) - (CHOOSE i \in PointAt(t) : TRUE)
IsNumberText(t) ==
    LET u == UnsignedText(t)
    IN  /\ u # <<>>
        /\ Cardinality(PointAt(u)) <= 1
        /\ \A i \in 1..Len(u) : IsDigit(u[i]) \/ u[i] = "."
        /\ IsDigit(u[1]) /\ IsDigit(u[Len(u)])

\* The number a text denotes.
TextValue(t) ==
    LET u == UnsignedText(t)
        k == DigitsAfterPoint(u)
        ds == SelectSeq(u, IsDigit)
        a == Rat(DigitsToNat(ds), Pow10(k))
    IN  IF t[1] = "-" THEN RNeg(a) ELSE a

\* The values of a command in the order control points, then end point.
ValuesOf(c) ==
    CASE c.type \in {"M", "L"} -> <<c.x, c.y>>
      [] c.type = "Q" -> <<c.x1, c.y1, c.x, c.y>>
      [] c.type = "C" -> <<c.x1, c.y1, c.x2, c.y2, c.x, c.y>>
      [] c.type = "Z" -> <<>>

\* The text t writes the value v: a whole number without a point, a fraction
\* rounded to dp digits after the point.
Writes(t, v, dp) ==
    /\ IsNumberText(t)
    /\ IF v[2] = 1
       THEN PointAt(t) = {} /\ TextValue(t) = v
       ELSE /\ DigitsAfterPoint(t) = dp
            /\ LET e == RSub(TextValue(t), v)
               IN  RLeq(<<-1, 2 * Pow10(dp)>>, e) /\ RLeq(e, <<1, 2 * Pow10(dp)>>)

\* C3: toPathData returns, command by command and with nothing in between,
\* each command's letter followed by its values, control points first; a
\* single space stands before a value exactly when the value is non-negative
\* and not the first of its command; a whole number is written without a
\* decimal point, a fraction with exactly decimalPlaces digits after it.
C3_PathDataFormat ==
    call.op = "toPathData" =>
        LET dp == ArgOr(1, N(2))[1]
            segs == Pieces(ret, Letters)
        IN  /\ ret # <<>> => ret[1] \in Letters
            /\ Len(segs) = Len(commands)
            /\ \A i \in 1..Len(commands) :
                LET vals == ValuesOf(commands[i])
                    toks == Pieces(Tail(segs[i]), {" ", "-"})
                IN  /\ segs[i][1] = commands[i].type
                    /\ Len(toks) = Len(vals)
                    /\ \A j \in 1..Len(vals) :
                        LET spaced == toks[j][1] = " "
                            text == IF spaced THEN Tail(toks[j]) ELSE toks[j]
                        IN  /\ spaced <=> (RLeq(N(0), vals[j]) /\ j > 1)
                            /\ Writes(text, vals[j], dp)

\* toPathData was called without decimalPlaces on a cubic curve followed by a
\* close, and wrote "C-1.25 0.13 7-0.50 0.50 0Z".
C3_Witness ==
    /\ call.op = "toPathData"
    /\ call.args[1] = Undefined
    /\ Len(commands) = 2
    /\ commands[1].type = "C" /\ commands[2].type = "Z"
    /\ ret = <<"C", "-", "1", ".", "2", "5", " ", "0", ".", "1", "3", " ", "7", "-", "0", ".", "5", "0", " ", "0", ".", "5", "0", " ", "0", "Z">>

----------------------------------------------------------------------------
(* Styled paths: toSVG, draw and drawSVG *)

Red == <<"r", "e", "d">>
StylePoints == {<<<<1, 8>>, N(-3)>>, <<N(10), <<-5, 4>>>>}
StyleControls == {<<N(7), <<-1, 2>>>>}
StyleSecondControls == {<<<<-9, 8>>, N(4)>>}
Fills == {Null, Str(Black), Str(Red), Str(<<"1">>)}
Strokes == {Null, Str(Blue)}
StrokeWidths == {N(1), <<3, 2>>}
StyleDecimalPlaces == {Undefined, Num(N(0))}

InitStyle == Glyph(PlainOptions, NoArray)

NextStyle ==
    \/ \E p \in StylePoints : MoveTo(p)
    \/ \E p \in StylePoints : LineTo(p)
    \/ \E p1 \in StyleControls, p \in StylePoints : QuadraticCurveTo(p1, p)
    \/ \E p1 \in StyleControls, p2 \in StyleSecondControls, p \in StylePoints :
          CurveTo(p1, p2, p)
    \/ ClosePath
    \/ \E f \in Fills : SetFill(f)
    \/ \E s \in Strokes : SetStroke(s)
    \/ \E w \in StrokeWidths : SetStrokeWidth(w)
    \/ \E dp \in StyleDecimalPlaces : ToSVG(dp)
    \/ Draw
    \/ DrawSVG

SpecStyle == InitStyle /\ [][NextStyle]_vars

\* C2: toSVG writes the fill attribute exactly when fill is not 'black' (as
\* fill="none" when fill is null, else as fill="<color>") and the stroke and
\* stroke-width attributes exactly when stroke is set.
C2_ToSVGAttributes ==
    call.op = "toSVG" =>
        ret = <<"<", "p", "a", "t", "h", " ", "d", "=", "\"">> \o toPathData(commands, call.args[1]) \o <<"\"">>
              \o (IF fill = Str(Black) THEN <<>>
                  ELSE IF fill = Null THEN <<" ", "f", "i", "l", "l", "=", "\"", "n", "o", "n", "e", "\"">>
                  ELSE <<" ", "f", "i", "l", "l", "=", "\"">> \o fill.v \o <<"\"">>)
              \o (IF stroke # Null
                  THEN <<" ", "s", "t", "r", "o", "k", "e", "=", "\"">> \o stroke.v
                       \o 
                       <<"\"", " ", "s", "t", "r", "o", "k", "e", "-", "w", "i", "d", "t", "h", "=", "\"">> \o NumberToString(strokeWidth) \o <<"\"">>
                  ELSE <<>>)
              \o <<"/", ">">>


\* A sink primitive: its kind, its coordinates (control points first) and its
\* paint (a color, and for a stroke the width).
Primitive(kind, nums, paint) == [kind |-> kind, nums |-> nums, paint |-> paint]

KindOf(type) ==
    CASE type = "M" -> "move" [] type = "L" -> "line" [] type = "Q" -> "quad"
      [] type = "C" -> "cubic" [] type = "Z" -> "close"

\* The number a sink receives for an argument: a string argument is parsed.
ArgNumber(j) == IF j.t = "string" THEN TextValue(j.v) ELSE j.v

ArgNumbers(args) == [i \in 1..Len(args) |-> ArgNumber(args[i])]

\* The primitive the raster call log[i] stands for (none for a property
\* assignment or beginPath).
RasterPrimitive(log, i) ==
    LET e == log[i]
    IN  CASE e.op = "moveTo" -> <<Primitive("move", ArgNumbers(e.args), <<>>)>>
          [] e.op = "lineTo" -> <<Primitive("line", ArgNumbers(e.args), <<>>)>>
          [] e.op = "quadraticCurveTo" -> <<Primitive("quad", ArgNumbers(e.args), <<>>)>>
          [] e.op = "bezierCurveTo" -> <<Primitive("cubic", ArgNumbers(e.args), <<>>)>>
          [] e.op = "closePath" -> <<Primitive("close", <<>>, <<>>)>>
          [] e.op = "fill" -> <<Primitive("fill", <<>>, log[i - 1].args)>>
          [] e.op = "stroke" ->
                <<Primitive("stroke", <<log[i - 1].args[1].v>>, log[i - 2].args)>>
          [] OTHER -> <<>>

\* The primitive the vector-document call log[i] stands for; a segment's
\* arguments come end point first.
VectorPrimitive(log, i) ==
    LET e == log[i]
        n == ArgNumbers(e.args)
    IN  CASE e.op = "createSVGPathSegMovetoAbs" -> <<Primitive("move", n, <<>>)>>
          [] e.op = "createSVGPathSegLinetoAbs" -> <<Primitive("line", n, <<>>)>>
          [] e.op = "createSVGPathSegCurvetoQuadraticAbs" ->
                <<Primitive("quad", <<n[3], n[4], n[1], n[2]>>, <<>>)>>
          [] e.op = "createSVGPathSegCurvetoCubicAbs" ->
                <<Primitive("cubic", <<n[3], n[4], n[5], n[6], n[1], n[2]>>, <<>>)>>
          [] e.op = "createSVGPathSegClosePath" -> <<Primitive("close", <<>>, <<>>)>>
          [] e.op = "setAttribute fill" -> <<Primitive("fill", <<>>, e.args)>>
          [] e.op = "setAttribute strokeWidth" ->
                <<Primitive("stroke", <<e.args[1].v>>, log[i - 1].args)>>
          [] OTHER -> <<>>

RECURSIVE RasterPrimitives(_, _)
RasterPrimitives(log, i) ==
    IF i > Len(log) THEN <<>> ELSE RasterPrimitive(log, i) \o RasterPrimitives(log, i + 1)

RECURSIVE VectorPrimitives(_, _)
VectorPrimitives(log, i) ==
    IF i > Len(log) THEN <<>> ELSE VectorPrimitive(log, i) \o VectorPrimitives(log, i + 1)

\* The paint instructions that follow the commands.
PaintPrimitives ==
    (IF fill # Null THEN <<Primitive("fill", <<>>, <<fill>>)>> ELSE <<>>)
    \o (IF stroke # Null THEN <<Primitive("stroke", <<strokeWidth>>, <<stroke>>)>> ELSE <<>>)

\* One primitive per command with the command's own coordinates, then the paint.
OwnPrimitives ==
    [i \in 1..Len(commands) |->
        Primitive(KindOf(commands[i].type), ValuesOf(commands[i]), <<>>)]
    \o PaintPrimitives

\* r is v when v is whole, else v rounded to two decimal places.
RoundedToCents(r, v) ==
    IF v[2] = 1 THEN r = v
    ELSE /\ RMul(r, N(100))[2] = 1
         /\ RLeq(<<-1, 200>>, RSub(r, v)) /\ RLeq(RSub(r, v), <<1, 200>>)

\* prims is OwnPrimitives up to the rounding of the coordinates.
IsRoundedReplay(prims) ==
    /\ Len(prims) = Len(OwnPrimitives)
    /\ \A i \in 1..Len(prims) :
          /\ prims[i].kind = OwnPrimitives[i].kind
          /\ prims[i].paint = OwnPrimitives[i].paint
          /\ Len(prims[i].nums) = Len(OwnPrimitives[i].nums)
          /\ IF i <= Len(commands)
             THEN \A k \in 1..Len(prims[i].nums) :
                      RoundedToCents(prims[i].nums[k], OwnPrimitives[i].nums[k])
             ELSE prims[i].nums = OwnPrimitives[i].nums

Kinds(prims) == [i \in 1..Len(prims) |-> prims[i].kind]

====
